---- MODULE Spec2Model ----
(***************************************************************************)
(* GoFind (src/main.go): a directory walker feeds file paths to scanners   *)
(* (one goroutine per file, or a fixed pool of workers reading an          *)
(* unbuffered channel); scanners send FoundFile records and error strings  *)
(* over unbuffered channels to two collector goroutines; main waits on a   *)
(* sync.WaitGroup, closes the channels and prints the summary.             *)
(*                                                                         *)
(* A Go string is modelled as a sequence of symbols: one-character strings *)
(* for everything the program inspects (paths, lines, keywords, patterns), *)
(* and opaque chunks for the text of an error value.                       *)
(***************************************************************************)
EXTENDS Integers, Sequences, FiniteSets

\* ------------------------------------------------------------------ bounds
\* Most non-directory entries under the root in one run (WalkDir also visits
\* the root and the directories above them).
MaxEntries == 2
\* Largest threadcount= value tried in pooled mode.
MaxWorkers == 2

\* ----------------------------------------------------------------- strings
\* The symbols of the model's strings are the characters of ASCII, Latin-1
\* and the Greek and Coptic block (U+0370..U+03FF).  A character of that block
\* that cannot stand in a string of this module (U+0370..U+037F) is written
\* by its code point, as the symbol "U+037B".  The upper-case letters among
\* the symbols, and what unicode.ToLower gives for each.
UpperLetters == <<"A","B","C","D","E","F","G","H","I","J","K","L","M",
                  "N","O","P","Q","R","S","T","U","V","W","X","Y","Z",
                  "À","Á","Â","Ã","Ä","Å","Æ","Ç","È","É","Ê","Ë","Ì",
                  "Í","Î","Ï","Ð","Ñ","Ò","Ó","Ô","Õ","Ö","Ø","Ù","Ú",
                  "Û","Ü","Ý","Þ","Ά","Έ","Ή","Ί","Ό","Ύ","Ώ","Α","Β",
                  "Γ","Δ","Ε","Ζ","Η","Θ","Ι","Κ","Λ","Μ","Ν","Ξ","Ο",
                  "Π","Ρ","Σ","Τ","Υ","Φ","Χ","Ψ","Ω","Ϊ","Ϋ","Ϗ","Ϙ",
                  "Ϛ","Ϝ","Ϟ","Ϡ","Ϣ","Ϥ","Ϧ","Ϩ","Ϫ","Ϭ","Ϯ","ϴ","Ϸ",
                  "Ϲ","Ϻ","Ͻ","Ͼ","Ͽ",
                  "U+0370","U+0372","U+0376","U+037F">>
LowerLetters == <<"a","b","c","d","e","f","g","h","i","j","k","l","m",
                  "n","o","p","q","r","s","t","u","v","w","x","y","z",
                  "à","á","â","ã","ä","å","æ","ç","è","é","ê","ë","ì",
                  "í","î","ï","ð","ñ","ò","ó","ô","õ","ö","ø","ù","ú",
                  "û","ü","ý","þ","ά","έ","ή","ί","ό","ύ","ώ","α","β",
                  "γ","δ","ε","ζ","η","θ","ι","κ","λ","μ","ν","ξ","ο",
                  "π","ρ","σ","τ","υ","φ","χ","ψ","ω","ϊ","ϋ","ϗ","ϙ",
                  "ϛ","ϝ","ϟ","ϡ","ϣ","ϥ","ϧ","ϩ","ϫ","ϭ","ϯ","θ","ϸ",
                  "ϲ","ϻ","U+037B","U+037C","U+037D",
                  "U+0371","U+0373","U+0377","ϳ">>
DigitChars == <<"0","1","2","3","4","5","6","7","8","9">>
DigitSet == {DigitChars[i] : i \in 1..10}

\* unicode.ToLower, for the letters it changes
LowerOf ==
  [c \in {UpperLetters[i] : i \in DOMAIN UpperLetters} |->
     LowerLetters[CHOOSE i \in DOMAIN UpperLetters : UpperLetters[i] = c]]

\* unicode.ToLower on one symbol
ToLowerChar(c) == IF c \in DOMAIN LowerOf THEN LowerOf[c] ELSE c

\* strings.ToLower
ToLower(s) == [i \in 1..Len(s) |-> ToLowerChar(s[i])]

\* strings.Contains
Contains(s, sub) ==
  \E i \in 0..(Len(s) - Len(sub)) : SubSeq(s, i + 1, i + Len(sub)) = sub

\* unicode.IsSpace: the white space among the model's symbols, which is
\* tab, line feed, vertical tab (U+000B), form feed, carriage return, space,
\* next line (U+0085) and no-break space (U+00A0)
WhiteSpace == {"\t", "\n", "", "\f", "\r", " ", "", " "}
IsSpace(c) == c \in WhiteSpace

\* strings.TrimSpace
RECURSIVE TrimLeft(_)
TrimLeft(s) == IF s # <<>> /\ IsSpace(Head(s)) THEN TrimLeft(Tail(s)) ELSE s
RECURSIVE TrimRight(_)
TrimRight(s) ==
  IF s # <<>> /\ IsSpace(s[Len(s)])
  THEN TrimRight(SubSeq(s, 1, Len(s) - 1)) ELSE s
TrimSpace(s) == TrimRight(TrimLeft(s))

\* the %d verb of fmt.Sprintf, for n >= 0
RECURSIVE Itoa(_)
Itoa(n) == IF n < 10 THEN <<DigitChars[n + 1]>>
           ELSE Itoa(n \div 10) \o <<DigitChars[(n % 10) + 1]>>

\* strings.Join
RECURSIVE Join(_, _)
Join(elems, sep) ==
  IF elems = <<>> THEN <<>>
  ELSE IF Len(elems) = 1 THEN elems[1]
  ELSE elems[1] \o sep \o Join(Tail(elems), sep)

HasPrefix(s, p) == Len(p) <= Len(s) /\ SubSeq(s, 1, Len(p)) = p

\* ------------------------------------------------------------------ regexp
\* A compiled *regexp.Regexp of the shape  class{lo,hi}  (greedy), which
\* covers \d{3}, \d+, \d* ...; nil is the (*Regexp)(nil) that regexp.Compile
\* returns next to a non-nil error.
NilRegexp == [nil |-> TRUE, src |-> <<>>, cls |-> {}, lo |-> 0, hi |-> 0]

\* regexp.Compile on one trimmed line of the regex file.  A line is a
\* record: its text, whether the text is a valid pattern, and its meaning.
Compile(line) ==
  IF line.valid
  THEN [nil |-> FALSE, src |-> line.src, cls |-> line.cls,
        lo |-> line.lo, hi |-> line.hi]
  ELSE NilRegexp

\* number of consecutive symbols of s, from position p on, that are in cls
RECURSIVE RunLen(_, _, _)
RunLen(s, p, cls) ==
  IF p <= Len(s) /\ s[p] \in cls THEN 1 + RunLen(s, p + 1, cls) ELSE 0

Min(a, b) == IF a < b THEN a ELSE b

\* the match FindString reports when it looks for one from position p on
RECURSIVE FindFrom(_, _, _)
FindFrom(re, s, p) ==
  IF p > Len(s) + 1 THEN <<>>
  ELSE IF RunLen(s, p, re.cls) >= re.lo
  THEN SubSeq(s, p, p + Min(RunLen(s, p, re.cls), re.hi) - 1)
  ELSE FindFrom(re, s, p + 1)

\* (*Regexp).FindString: the leftmost match, as long as the greedy
\* repetition allows; "" when there is no match (and when the leftmost
\* match is empty).  Only called on a non-nil Regexp.
FindString(re, s) == FindFrom(re, s, 1)

\* (*Regexp).String
RegexString(re) == re.src

\* -------------------------------------------------------------- filesystem
\* A filesystem entry as WalkDir and os.OpenFile see it:
\*   path    its full path
\*   kind    "dir", "file", or "walkerr" (WalkDir reports an error for it)
\*   openErr os.OpenFile fails (permission denied)
\*   lines   its lines; a line is [text, pad]: the text followed by pad more
\*           bytes that are no newline (so that a line can exceed the
\*           scanner's buffer without a million-symbol sequence)
\*   ioErr   reading fails with an I/O error once the lines have been read
Line(text) == [text |-> text, pad |-> 0]

\* scanner.Buffer(buf, 1024*1024): the largest buffer bufio.Scanner allocates
MaxTokenSize == 1024 * 1024

LineLen(l) == Len(l.text) + l.pad

\* bufio.Scanner gives up with ErrTooLong on a line that fills the buffer
TooLongAt(lines) ==
  IF \E i \in 1..Len(lines) : LineLen(lines[i]) >= MaxTokenSize
  THEN CHOOSE i \in 1..Len(lines) :
         /\ LineLen(lines[i]) >= MaxTokenSize
         /\ \A j \in 1..(i - 1) : LineLen(lines[j]) < MaxTokenSize
  ELSE 0

\* the texts scanner.Scan()/scanner.Text() yield before Scan returns false
ScannedLines(f) ==
  LET k == TooLongAt(f.lines)
      n == IF k = 0 THEN Len(f.lines) ELSE k - 1
  IN [i \in 1..n |-> f.lines[i].text]

\* scanner.Err() after the loop
ScannerErr(f) ==
  IF TooLongAt(f.lines) # 0 THEN "ErrTooLong"
  ELSE IF f.ioErr THEN "EIO" ELSE "nil"

\* the text of an error value (%v)
ErrText(kind, path) ==
  CASE kind = "open"       -> <<"open ">> \o path \o <<": permission denied">>
    [] kind = "ErrTooLong" -> <<"bufio.Scanner: token too long">>
    [] kind = "EIO"        -> <<"read ">> \o path \o <<": input/output error">>
    [] kind = "walk"       -> <<"open ">> \o path \o <<": permission denied">>
    [] kind = "nilderef"   ->
         <<"runtime error: invalid memory address or nil pointer dereference">>

\* fmt.Sprintf("%s = %v", filePath, err)
ErrLine(path, kind) == path \o <<" ", "=", " ">> \o ErrText(kind, path)

\* ------------------------------------------------------------ line matcher
\* fmt.Sprintf("%s::%d", kw, line) of NewThreadSearchFile
NewThreadKwLine(kw, line) == kw \o <<":", ":">> \o Itoa(line)

\* fmt.Sprintf("%s:%d", kw, line) of SameThreadSearchFile
SameThreadKwLine(kw, line) == kw \o <<":">> \o Itoa(line)

\* fmt.Sprintf("%s:%s:%d", match, regex.String(), line), the same in both
ReLine(match, re, line) ==
  match \o <<":">> \o RegexString(re) \o <<":">> \o Itoa(line)

\* the keyword descriptor of NewThreadSearchFile (newThread) or of
\* SameThreadSearchFile
KwLine(kw, line, newThread) ==
  IF newThread THEN NewThreadKwLine(kw, line) ELSE SameThreadKwLine(kw, line)

\* strings.Count for a non-empty sub, overlapping occurrences included
Occurrences(s, sub) ==
  Cardinality({i \in 0..(Len(s) - Len(sub)) :
                 SubSeq(s, i + 1, i + Len(sub)) = sub})

\* KeywordHits that appends a descriptor for every occurrence of the keyword
\* in the line.
RECURSIVE KeywordHitsPerOccurrence(_, _, _, _)
KeywordHitsPerOccurrence(lineText, line, kws, newThread) ==
  IF kws = <<>> THEN <<>>
  ELSE [p \in 1..Occurrences(lineText, Head(kws)) |->
          KwLine(Head(kws), line, newThread)]
       \o KeywordHitsPerOccurrence(lineText, line, Tail(kws), newThread)

\* for _, kw := range kws { if strings.Contains(lineText, kw) { append } }
RECURSIVE KeywordHits(_, _, _, _)
KeywordHits(lineText, line, kws, newThread) ==
  IF kws = <<>> THEN <<>>
  ELSE (IF Contains(lineText, Head(kws))
        THEN <<KwLine(Head(kws), line, newThread)>> ELSE <<>>)
       \o KeywordHits(lineText, line, Tail(kws), newThread)

\* for _, regex := range regexs { if match := regex.FindString(...) ... }
\* the descriptors appended; a nil regex panics in FindString and the loop
\* stops there
RECURSIVE RegexHits(_, _, _)
RegexHits(lineText, line, regexs) ==
  IF regexs = <<>> \/ Head(regexs).nil THEN <<>>
  ELSE (IF FindString(Head(regexs), lineText) # <<>>
        THEN <<ReLine(FindString(Head(regexs), lineText), Head(regexs), line)>>
        ELSE <<>>)
       \o RegexHits(lineText, line, Tail(regexs))

\* the regex loop dereferences a nil *Regexp
RegexPanics(regexs) == \E j \in 1..Len(regexs) : regexs[j].nil

\* ScanLoop with the regex loop placed before the keyword loop.
RECURSIVE ScanLoopRegexFirst(_, _, _, _, _)
ScanLoopRegexFirst(texts, line, kws, regexs, newThread) ==
  IF texts = <<>> THEN <<>>
  ELSE RegexHits(Head(texts), line, regexs)
       \o (IF RegexPanics(regexs) THEN <<>>
           ELSE KeywordHits(Head(texts), line, kws, newThread)
                \o ScanLoopRegexFirst(Tail(texts), line + 1, kws, regexs,
                                      newThread))

\* for scanner.Scan() { ... line++ }  from line number `line` on: the
\* descriptors appended to file.Keywords, up to a panic if there is one
RECURSIVE ScanLoop(_, _, _, _, _)
ScanLoop(texts, line, kws, regexs, newThread) ==
  IF texts = <<>> THEN <<>>
  ELSE KeywordHits(Head(texts), line, kws, newThread)
       \o RegexHits(Head(texts), line, regexs)
       \o (IF RegexPanics(regexs) THEN <<>>
           ELSE ScanLoop(Tail(texts), line + 1, kws, regexs, newThread))

\* the scan loop panics: it has a line to match and a nil regex to match it
ScanPanics(texts, regexs) == texts # <<>> /\ RegexPanics(regexs)

\* Outcome with `if hit` tested before scanner.Err(): matches accumulated
\* before a read error are forwarded instead of discarded.
OutcomeKeepPartial(f, filePath, foundPath, hits, panicked) ==
  LET file == [FilePath |-> foundPath, Keywords |-> hits]
      hit == ~f.openErr /\ hits # <<>>
  IN IF f.openErr
     THEN [outcome |-> "openErr", searched |-> FALSE,
           errMsg |-> ErrLine(filePath, "open"),
           file |-> [file EXCEPT !.Keywords = <<>>], hit |-> FALSE]
     ELSE IF panicked
     THEN [outcome |-> "panic", searched |-> FALSE,
           errMsg |-> ErrLine(filePath, "nilderef"), file |-> file, hit |-> hit]
     ELSE IF hit
     THEN [outcome |-> "hit", searched |-> TRUE, errMsg |-> <<>>,
           file |-> file, hit |-> hit]
     ELSE IF ScannerErr(f) # "nil"
     THEN [outcome |-> "scanErr", searched |-> TRUE,
           errMsg |-> ErrLine(filePath, ScannerErr(f)),
           file |-> file, hit |-> hit]
     ELSE [outcome |-> "nohit", searched |-> TRUE, errMsg |-> <<>>,
           file |-> file, hit |-> hit]

\* Outcome with the searchedFiles increment placed before os.OpenFile: a
\* file that cannot be opened counts as searched.
OutcomeCountBeforeOpen(f, filePath, foundPath, hits, panicked) ==
  LET file == [FilePath |-> foundPath, Keywords |-> hits]
      hit == hits # <<>>
  IN IF f.openErr
     THEN [outcome |-> "openErr", searched |-> TRUE,
           errMsg |-> ErrLine(filePath, "open"),
           file |-> [file EXCEPT !.Keywords = <<>>], hit |-> FALSE]
     ELSE IF panicked
     THEN [outcome |-> "panic", searched |-> TRUE,
           errMsg |-> ErrLine(filePath, "nilderef"), file |-> file, hit |-> hit]
     ELSE IF ScannerErr(f) # "nil"
     THEN [outcome |-> "scanErr", searched |-> TRUE,
           errMsg |-> ErrLine(filePath, ScannerErr(f)),
           file |-> file, hit |-> hit]
     ELSE [outcome |-> IF hit THEN "hit" ELSE "nohit", searched |-> TRUE,
           errMsg |-> <<>>, file |-> file, hit |-> hit]

\* Outcome with the searchedFiles increment placed after the scanner.Err()
\* test: a file whose scan ends in a read error does not count as searched.
OutcomeSkipCountOnScanErr(f, filePath, foundPath, hits, panicked) ==
  LET file == [FilePath |-> foundPath, Keywords |-> hits]
      hit == hits # <<>>
  IN IF f.openErr
     THEN [outcome |-> "openErr", searched |-> FALSE,
           errMsg |-> ErrLine(filePath, "open"),
           file |-> [file EXCEPT !.Keywords = <<>>], hit |-> FALSE]
     ELSE IF panicked
     THEN [outcome |-> "panic", searched |-> FALSE,
           errMsg |-> ErrLine(filePath, "nilderef"), file |-> file, hit |-> hit]
     ELSE IF ScannerErr(f) # "nil"
     THEN [outcome |-> "scanErr", searched |-> FALSE,
           errMsg |-> ErrLine(filePath, ScannerErr(f)),
           file |-> file, hit |-> hit]
     ELSE [outcome |-> IF hit THEN "hit" ELSE "nohit", searched |-> TRUE,
           errMsg |-> <<>>, file |-> file, hit |-> hit]

\* What one run of the scan body does with a file, up to its first channel
\* send: a record
\*   outcome  "openErr" | "panic" | "scanErr" | "hit" | "nohit"
\*   searched whether atomic.AddUint64(searchedFiles, 1) was reached
\*   errMsg   the string for errChan (outcomes openErr, panic, scanErr)
\*   file     the *FoundFile, with the descriptors appended so far
\*   hit      the local variable hit
Outcome(f, filePath, foundPath, hits, panicked) ==
  IF f.openErr
  THEN [outcome |-> "openErr", searched |-> FALSE,
        errMsg |-> ErrLine(filePath, "open"),
        file |-> [FilePath |-> foundPath, Keywords |-> <<>>], hit |-> FALSE]
  ELSE LET file == [FilePath |-> foundPath, Keywords |-> hits]
           hit == hits # <<>>
       IN IF panicked
          THEN [outcome |-> "panic", searched |-> FALSE,
                errMsg |-> ErrLine(filePath, "nilderef"),
                file |-> file, hit |-> hit]
          ELSE IF ScannerErr(f) # "nil"
          THEN [outcome |-> "scanErr", searched |-> TRUE,
                errMsg |-> ErrLine(filePath, ScannerErr(f)),
                file |-> file, hit |-> hit]
          ELSE [outcome |-> IF hit THEN "hit" ELSE "nohit", searched |-> TRUE,
                errMsg |-> <<>>, file |-> file, hit |-> hit]

\* NewThreadSearchFile, from os.OpenFile to its first send or return
NewThreadScan(f, kws, regexs) ==
  Outcome(f, f.path, TrimSpace(f.path),
          ScanLoop(ScannedLines(f), 1, kws, regexs, TRUE),
          ScanPanics(ScannedLines(f), regexs))

\* the closure of SameThreadSearchFile, from os.OpenFile to its first send
SameThreadScan(f, kws, regexs) ==
  Outcome(f, f.path, f.path,
          ScanLoop(ScannedLines(f), 1, kws, regexs, FALSE),
          ScanPanics(ScannedLines(f), regexs))

\* fmt.Sprintf("Path: %s | Keywords: %v\n", ..., strings.Join(..., " & "))
FileString(found) ==
  <<"P","a","t","h",":"," ">> \o found.FilePath
  \o <<" ","|"," ","K","e","y","w","o","r","d","s",":"," ">>
  \o Join(found.Keywords, <<" ", "&", " ">>) \o <<"\n">>

\* the ignore test of both walkFuncs
Ignored(path, ignored_types) ==
  \E i \in 1..Len(ignored_types) :
    Contains(ToLower(path), ToLower(ignored_types[i]))

\* ------------------------------------------------------------------ inputs
\* The filesystem entries a run may meet, in the lexical order in which
\* filepath.WalkDir visits them.  Root is the directory= argument.
Root == [path |-> <<"r">>, kind |-> "dir", openErr |-> FALSE,
         lines |-> <<>>, ioErr |-> FALSE]

File(path, lines) == [path |-> path, kind |-> "file", openErr |-> FALSE,
                      lines |-> lines, ioErr |-> FALSE]

Catalog == <<
  [Root EXCEPT !.path = <<"r","/","S","y">>],
  File(<<"r","/","S","y","/","f">>, <<Line(<<"E","R">>)>>),
  [Root EXCEPT !.path = <<"r","/","S","y","/","x">>, !.kind = "walkerr"],
  File(<<"r","/","b">>,
       <<Line(<<"n","1","2","3","4">>), Line(<<"E","R"," ","E","R">>)>>),
  File(<<"r","/","b","i","g">>,
       <<Line(<<"E","R">>), [text |-> <<"x">>, pad |-> MaxTokenSize]>>),
  File(<<"r","/","c">>, <<Line(<<"z","z">>)>>),
  [File(<<"r","/","d">>, <<Line(<<"E","R">>)>>) EXCEPT !.openErr = TRUE],
  [File(<<"r","/","i","o">>, <<Line(<<"E","R"," ","0","0","7">>)>>)
     EXCEPT !.ioErr = TRUE] >>

\* the entry is (strictly) below the directory
Below(path, dir) == HasPrefix(path, dir \o <<"/">>)

\* the k-th smallest element of a finite set of integers
RECURSIVE Nth(_, _)
Nth(S, k) ==
  LET m == CHOOSE x \in S : \A y \in S : x <= y
  IN IF k = 1 THEN m ELSE Nth(S \ {m}, k - 1)

\* The walk over the root, the chosen non-directory entries and the
\* directories leading to them.
WalkOf(S) ==
  LET dirs == {d \in 1..Len(Catalog) :
                 /\ Catalog[d].kind = "dir"
                 /\ \E i \in S : Below(Catalog[i].path, Catalog[d].path)}
      T == S \cup dirs
  IN <<Root>> \o [k \in 1..Cardinality(T) |-> Catalog[Nth(T, k)]]

Walks ==
  {WalkOf(S) : S \in {X \in SUBSET {i \in 1..Len(Catalog) :
                                      Catalog[i].kind # "dir"} :
                        Cardinality(X) \in 1..MaxEntries}}

Digits3 == [src |-> <<"\\","d","{","3","}">>, valid |-> TRUE,
            cls |-> DigitSet, lo |-> 3, hi |-> 3]
\* \d+ : no line the scanner yields is longer than its buffer
DigitsPlus == [src |-> <<"\\","d","+">>, valid |-> TRUE,
               cls |-> DigitSet, lo |-> 1, hi |-> MaxTokenSize]
BadPattern == [src |-> <<"(">>, valid |-> FALSE, cls |-> {}, lo |-> 0, hi |-> 0]
\* a line of the regex file with white space around the pattern, and a line
\* of white space only
Padded(line) == [line EXCEPT !.src = <<" ", "\t">> \o @ \o <<" ">>]
BlankLine == [src |-> <<"\t", " ">>, valid |-> TRUE, cls |-> {}, lo |-> 0,
              hi |-> 0]

\* The list files main reads: keywords=, regex=, ignore=, ignoretypes=
ListFiles == {
  [kw |-> << <<"\t","E","R"," ">>, <<" ">>, <<"R","\r">> >>,
   re |-> <<Padded(Digits3), BlankLine, DigitsPlus>>,
   ig |-> << <<"s","Y">> >>, igt |-> <<>>],
  [kw |-> << <<"E","R">> >>, re |-> <<BadPattern, Digits3>>,
   ig |-> <<>>, igt |-> << <<"/","s","y","/">> >>] }

\* main: the lines of a list file, trimmed, blank lines dropped
RECURSIVE LoadLines(_)
LoadLines(lines) ==
  IF lines = <<>> THEN <<>>
  ELSE (IF TrimSpace(Head(lines)) # <<>>
        THEN <<TrimSpace(Head(lines))>> ELSE <<>>) \o LoadLines(Tail(lines))

\* main, lines 425-435: every line is trimmed, a blank one is skipped, and
\* regexs = append(regexs, regex) runs for every other line, also when
\* regexp.Compile failed and regex is nil
RECURSIVE LoadRegexs(_)
LoadRegexs(lines) ==
  IF lines = <<>> THEN <<>>
  ELSE (IF TrimSpace(Head(lines).src) # <<>>
        THEN <<Compile([Head(lines) EXCEPT !.src = TrimSpace(@)])>>
        ELSE <<>>) \o LoadRegexs(Tail(lines))

\* ------------------------------------------------------------------- state
VARIABLES
  entries,         \* the entries WalkDir visits, in order
  keywords,        \* main: keywords
  regexs,          \* main: regexs
  ignored_strings, \* main: ignored_strings
  newThread,       \* main: newThread
  threadCount,     \* main: threadCount
  fileCounter,     \* *NumFiles: FoundFiles, SearchedFiles, NumErrors, NumIgnored
  wg,              \* the sync.WaitGroup counter
  closed,          \* which of doneChan, outputChan, errChan, fileChan are closed
  mainPc,          \* where main is
  walk,            \* the file finder: [pc, idx] (idx: the entry walkFunc is at)
  tasks,           \* the NewThreadSearchFile goroutines, in spawn order
  workers,         \* the SameThreadSearchFile goroutines
  fileColl,        \* FileCollector: [pc, held]
  errColl,         \* ErrorCollector: [pc, held]
  outSink,         \* the lines written to the output file
  errSink,         \* the lines written to the error file
  monitor,         \* doneFunc: [pc, printedAfterDone]
  opens,           \* per entry, the number of os.OpenFile calls on it
  crashed,         \* the process died of an unrecovered panic
  summary          \* the "Found/Searched Files" line main printed, or <<>>

vars == <<entries, keywords, regexs, ignored_strings, newThread, threadCount,
          fileCounter, wg, closed, mainPc, walk, tasks, workers, fileColl,
          errColl, outSink, errSink, monitor, opens, crashed, summary>>

config == <<entries, keywords, regexs, ignored_strings, newThread, threadCount>>

NoMsg == <<>>
NoRes == [outcome |-> "none", searched |-> FALSE, errMsg |-> <<>>,
          file |-> <<>>, hit |-> FALSE]

\* runtime.NumCPU() of the host, at least 1
NumCPU == MaxWorkers

\* The integers given as threadcount= (strconv.Atoi takes any of them;
\* without the argument the variable stays 0).
ThreadCountArgs == (0 - 1)..MaxWorkers

\* main, lines 384-386: if threadCount == 0 { threadCount = runtime.NumCPU() }
ThreadCount(arg) == IF arg = 0 THEN NumCPU ELSE arg

\* main up to line 484: arguments parsed, list files loaded, counters and
\* channels made, nothing started; threadcount= is one of args
Setup(args) ==
  /\ entries \in Walks
  /\ \E lf \in ListFiles :
       /\ keywords = LoadLines(lf.kw)
       /\ regexs = LoadRegexs(lf.re)
       /\ ignored_strings = LoadLines(lf.ig) \o LoadLines(lf.igt)
  /\ newThread \in BOOLEAN
  /\ threadCount \in {ThreadCount(a) : a \in args}
  /\ (newThread => threadCount = 1)
  /\ fileCounter = [FoundFiles |-> 0, SearchedFiles |-> 0,
                    NumErrors |-> 0, NumIgnored |-> 0]
  /\ wg = 0
  /\ closed = [done |-> FALSE, output |-> FALSE, err |-> FALSE, file |-> FALSE]
  /\ mainPc = "start"
  /\ walk = [pc |-> "idle", idx |-> 1]
  /\ tasks = <<>>
  /\ workers = <<>>
  /\ fileColl = [pc |-> "idle", held |-> NoMsg]
  /\ errColl = [pc |-> "idle", held |-> NoMsg]
  /\ outSink = <<>>
  /\ errSink = <<>>
  /\ monitor = [pc |-> "idle", printedAfterDone |-> FALSE]
  /\ opens = [i \in 1..Len(entries) |-> 0]
  /\ crashed = FALSE
  /\ summary = <<>>

\* the runs with no threadcount= argument or a positive one
Init == Setup(0..MaxWorkers)

\* the runs with any threadcount= argument main accepts
InitAnyCount == Setup(ThreadCountArgs)

\* the process is alive: main has not returned and no panic went unrecovered
Running == mainPc # "exited" /\ ~crashed

\* -------------------------------------------------------------------- main
\* main, lines 497-502 / 509-519: start the collectors, the finder or the
\* workers, and doneFunc
MainStart ==
  /\ Running /\ mainPc = "start"
  /\ fileColl' = [fileColl EXCEPT !.pc = "recv"]
  /\ errColl' = [errColl EXCEPT !.pc = "recv"]
  /\ monitor' = [monitor EXCEPT !.pc = "range"]
  /\ IF newThread
     THEN /\ wg' = wg + 1
          /\ walk' = [walk EXCEPT !.pc = "walk"]
          /\ UNCHANGED workers
     ELSE /\ wg' = wg + (IF threadCount > 0 THEN threadCount ELSE 0)
          /\ workers' = [w \in 1..threadCount |->
                           [pc |-> "recv", file |-> 0, res |-> NoRes]]
          /\ UNCHANGED walk
  /\ mainPc' = "sendDone"
  /\ UNCHANGED <<config, fileCounter, closed, tasks, outSink, errSink, opens,
                 crashed, summary>>

\* main, line 503 / 520-521: doneChan <- false, received by doneFunc's range,
\* which then enters its inner loop; in pooled mode main goes on to walk
MainSendDone ==
  /\ Running /\ mainPc = "sendDone"
  /\ monitor.pc = "range" /\ ~closed.done
  /\ monitor' = [monitor EXCEPT !.pc = "render"]
  /\ IF newThread
     THEN mainPc' = "wait" /\ UNCHANGED walk
     ELSE mainPc' = "walk" /\ walk' = [walk EXCEPT !.pc = "walk"]
  /\ UNCHANGED <<config, fileCounter, wg, closed, tasks, workers, fileColl,
                 errColl, outSink, errSink, opens, crashed, summary>>

\* MainWait without the wait: main goes on to close the channels whatever
\* the WaitGroup counter is.
MainWaitNoBarrier ==
  /\ Running /\ mainPc = "wait"
  /\ mainPc' = "close"
  /\ UNCHANGED <<config, fileCounter, wg, closed, walk, tasks, workers,
                 fileColl, errColl, outSink, errSink, monitor, opens, crashed,
                 summary>>

\* main, line 504 / 522: wg.Wait() returns
MainWait ==
  /\ Running /\ mainPc = "wait"
  /\ wg = 0
  /\ mainPc' = "close"
  /\ UNCHANGED <<config, fileCounter, wg, closed, walk, tasks, workers,
                 fileColl, errColl, outSink, errSink, monitor, opens, crashed,
                 summary>>

\* main, lines 505-507 / 523-525: close(doneChan), close(outputChan),
\* close(errChan)
MainClose ==
  /\ Running /\ mainPc = "close"
  /\ closed' = [closed EXCEPT !.done = TRUE, !.output = TRUE, !.err = TRUE]
  /\ mainPc' = "summary"
  /\ UNCHANGED <<config, fileCounter, wg, walk, tasks, workers, fileColl,
                 errColl, outSink, errSink, monitor, opens, crashed, summary>>

\* main, lines 528-529: format the summary from the counters and print it
MainSummary ==
  /\ Running /\ mainPc = "summary"
  /\ summary' = [found |-> fileCounter.FoundFiles,
                 searched |-> fileCounter.SearchedFiles]
  /\ mainPc' = "return"
  /\ UNCHANGED <<config, fileCounter, wg, closed, walk, tasks, workers,
                 fileColl, errColl, outSink, errSink, monitor, opens, crashed>>

\* main, lines 530-534: print and log the elapsed time and the closing
\* message, then return, which ends the process
MainReturn ==
  /\ Running /\ mainPc = "return"
  /\ mainPc' = "exited"
  /\ UNCHANGED <<config, fileCounter, wg, closed, walk, tasks, workers,
                 fileColl, errColl, outSink, errSink, monitor, opens, crashed,
                 summary>>

\* ------------------------------------------------------------- file finder
Entry == entries[walk.idx]

\* WalkVisit with the FoundFiles increment placed before the ignore loop: an
\* ignored file is counted as found.
WalkVisitCountIgnored ==
  /\ Running /\ walk.pc = "walk" /\ walk.idx <= Len(entries)
  /\ IF Entry.kind = "walkerr"
     THEN /\ walk' = [walk EXCEPT !.pc = "sendErr"]
          /\ UNCHANGED <<fileCounter, wg, tasks>>
     ELSE IF Entry.kind = "dir"
     THEN /\ walk' = [walk EXCEPT !.idx = @ + 1]
          /\ UNCHANGED <<fileCounter, wg, tasks>>
     ELSE IF Ignored(Entry.path, ignored_strings)
     THEN /\ fileCounter' = [fileCounter EXCEPT !.FoundFiles = @ + 1]
          /\ walk' = [walk EXCEPT !.idx = @ + 1]
          /\ UNCHANGED <<wg, tasks>>
     ELSE /\ fileCounter' = [fileCounter EXCEPT !.FoundFiles = @ + 1]
          /\ IF newThread
             THEN /\ wg' = wg + 1
                  /\ tasks' = Append(tasks, [file |-> walk.idx, pc |-> "start",
                                             res |-> NoRes])
                  /\ walk' = [walk EXCEPT !.idx = @ + 1]
             ELSE /\ walk' = [walk EXCEPT !.pc = "dispatch"]
                  /\ UNCHANGED <<wg, tasks>>
  /\ UNCHANGED <<config, closed, mainPc, workers, fileColl, errColl, outSink,
                 errSink, monitor, opens, crashed, summary>>

\* walkFunc of NewThreadFileFinder / SameThreadFileFinder on the next entry:
\* an error is sent to errChan (a later step, the send blocks); a directory
\* and an ignored path are passed over; anything else is counted and
\* dispatched: a new goroutine, or a send on fileChan (a later step)
WalkVisit ==
  /\ Running /\ walk.pc = "walk" /\ walk.idx <= Len(entries)
  /\ IF Entry.kind = "walkerr"
     THEN /\ walk' = [walk EXCEPT !.pc = "sendErr"]
          /\ UNCHANGED <<fileCounter, wg, tasks>>
     ELSE IF Entry.kind = "dir" \/ Ignored(Entry.path, ignored_strings)
     THEN /\ walk' = [walk EXCEPT !.idx = @ + 1]
          /\ UNCHANGED <<fileCounter, wg, tasks>>
     ELSE /\ fileCounter' = [fileCounter EXCEPT !.FoundFiles = @ + 1]
          /\ IF newThread
             THEN /\ wg' = wg + 1
                  /\ tasks' = Append(tasks, [file |-> walk.idx, pc |-> "start",
                                             res |-> NoRes])
                  /\ walk' = [walk EXCEPT !.idx = @ + 1]
             ELSE /\ walk' = [walk EXCEPT !.pc = "dispatch"]
                  /\ UNCHANGED <<wg, tasks>>
  /\ UNCHANGED <<config, closed, mainPc, workers, fileColl, errColl, outSink,
                 errSink, monitor, opens, crashed, summary>>

\* WalkSendErr with walkFunc returning err instead of nil: WalkDir stops and
\* returns the error, no later entry is visited.
WalkSendErrAbort ==
  /\ Running /\ walk.pc = "sendErr"
  /\ errColl.pc = "recv" /\ ~closed.err
  /\ errColl' = [pc |-> "count", held |-> ErrLine(Entry.path, "walk")]
  /\ walk' = [pc |-> "walk", idx |-> Len(entries) + 1]
  /\ UNCHANGED <<config, fileCounter, wg, closed, mainPc, tasks, workers,
                 fileColl, outSink, errSink, monitor, opens, crashed, summary>>

\* walkFunc, line 153 / 264: errChan <- "path = err", taken by ErrorCollector
WalkSendErr ==
  /\ Running /\ walk.pc = "sendErr"
  /\ errColl.pc = "recv" /\ ~closed.err
  /\ errColl' = [pc |-> "count", held |-> ErrLine(Entry.path, "walk")]
  /\ walk' = [pc |-> "walk", idx |-> walk.idx + 1]
  /\ UNCHANGED <<config, fileCounter, wg, closed, mainPc, tasks, workers,
                 fileColl, outSink, errSink, monitor, opens, crashed, summary>>

\* WalkDispatch with a send that does not wait for a receiver: the walker
\* moves on and the file reaches no worker.
WalkDispatchDropped(w) ==
  /\ Running /\ walk.pc = "dispatch"
  /\ w \in DOMAIN workers /\ ~closed.file
  /\ walk' = [pc |-> "walk", idx |-> walk.idx + 1]
  /\ UNCHANGED <<config, fileCounter, wg, closed, mainPc, tasks, workers,
                 fileColl, errColl, outSink, errSink, monitor, opens, crashed,
                 summary>>

\* SameThreadFileFinder, line 278: fileChan <- &FoundFile{...}, taken by the
\* range of worker w
WalkDispatch(w) ==
  /\ Running /\ walk.pc = "dispatch"
  /\ w \in DOMAIN workers /\ workers[w].pc = "recv" /\ ~closed.file
  /\ workers' = [workers EXCEPT ![w] = [pc |-> "scan", file |-> walk.idx,
                                        res |-> NoRes]]
  /\ walk' = [pc |-> "walk", idx |-> walk.idx + 1]
  /\ UNCHANGED <<config, fileCounter, wg, closed, mainPc, tasks, fileColl,
                 errColl, outSink, errSink, monitor, opens, crashed, summary>>

\* WalkFinish that leaves SameThreadFileFinder without close(fileChan), as
\* its return at line 286 does.
WalkFinishNoClose ==
  /\ Running /\ walk.pc = "walk" /\ walk.idx > Len(entries)
  /\ walk' = [walk EXCEPT !.pc = "done"]
  /\ IF newThread
     THEN wg' = wg - 1 /\ UNCHANGED <<closed, mainPc>>
     ELSE /\ mainPc' = "wait"
          /\ UNCHANGED <<wg, closed>>
  /\ UNCHANGED <<config, fileCounter, tasks, workers, fileColl, errColl,
                 outSink, errSink, monitor, opens, crashed, summary>>

\* WalkDir has returned (nil: walkFunc never returns an error).
\* NewThreadFileFinder: the deferred wg.Done().  SameThreadFileFinder:
\* close(fileChan), and main goes on to wg.Wait()
WalkFinish ==
  /\ Running /\ walk.pc = "walk" /\ walk.idx > Len(entries)
  /\ walk' = [walk EXCEPT !.pc = "done"]
  /\ IF newThread
     THEN wg' = wg - 1 /\ UNCHANGED <<closed, mainPc>>
     ELSE /\ closed' = [closed EXCEPT !.file = TRUE]
          /\ mainPc' = "wait"
          /\ UNCHANGED wg
  /\ UNCHANGED <<config, fileCounter, tasks, workers, fileColl, errColl,
                 outSink, errSink, monitor, opens, crashed, summary>>

\* ------------------------------------------------- NewThreadSearchFile
\* Its defers run in the order f.Close(), wg.Done(), recover closure.

\* lines 78-142: open the file and scan it, up to the first send or the
\* return.  On a panic the deferred wg.Done() runs before the recover
\* closure sends; on a return with nothing to send wg.Done() runs at once.
NewThreadSearch(k) ==
  /\ Running /\ k \in DOMAIN tasks /\ tasks[k].pc = "start"
  /\ opens' = [opens EXCEPT ![tasks[k].file] = @ + 1]
  /\ \E res \in {NewThreadScan(entries[tasks[k].file], keywords, regexs)} :
     LET next == CASE res.outcome \in {"openErr", "scanErr"} -> "sendErr"
                   [] res.outcome = "panic" -> "recover"
                   [] res.outcome = "hit" -> "sendFile"
                   [] res.outcome = "nohit" -> "done"
     IN /\ tasks' = [tasks EXCEPT ![k] = [@ EXCEPT !.pc = next, !.res = res]]
        /\ fileCounter' = [fileCounter EXCEPT !.SearchedFiles =
                             IF res.searched THEN @ + 1 ELSE @]
        /\ wg' = IF res.outcome \in {"panic", "nohit"} THEN wg - 1 ELSE wg
  /\ UNCHANGED <<config, closed, mainPc, walk, workers, fileColl, errColl,
                 outSink, errSink, monitor, crashed, summary>>

\* lines 83-88, 133-139: errChan <- msg; return; deferred wg.Done()
NewThreadSendErr(k) ==
  /\ Running /\ k \in DOMAIN tasks /\ tasks[k].pc = "sendErr"
  /\ errColl.pc = "recv" /\ ~closed.err
  /\ errColl' = [pc |-> "count", held |-> tasks[k].res.errMsg]
  /\ tasks' = [tasks EXCEPT ![k].pc = "done"]
  /\ wg' = wg - 1
  /\ UNCHANGED <<config, fileCounter, closed, mainPc, walk, workers, fileColl,
                 outSink, errSink, monitor, opens, crashed, summary>>

\* lines 142-144: fileChan <- file; return; deferred wg.Done()
NewThreadSendFile(k) ==
  /\ Running /\ k \in DOMAIN tasks /\ tasks[k].pc = "sendFile"
  /\ fileColl.pc = "recv" /\ ~closed.output
  /\ fileColl' = [pc |-> "write", held |-> tasks[k].res.file]
  /\ tasks' = [tasks EXCEPT ![k].pc = "done"]
  /\ wg' = wg - 1
  /\ UNCHANGED <<config, fileCounter, closed, mainPc, walk, workers, errColl,
                 outSink, errSink, monitor, opens, crashed, summary>>

\* lines 69-76: the recover closure sends on errChan (wg.Done() has run)
NewThreadRecoverSend(k) ==
  /\ Running /\ k \in DOMAIN tasks /\ tasks[k].pc = "recover"
  /\ errColl.pc = "recv" /\ ~closed.err
  /\ errColl' = [pc |-> "count", held |-> tasks[k].res.errMsg]
  /\ tasks' = [tasks EXCEPT ![k].pc = "done"]
  /\ UNCHANGED <<config, fileCounter, wg, closed, mainPc, walk, workers,
                 fileColl, outSink, errSink, monitor, opens, crashed, summary>>

\* line 72 when main has closed errChan: send on closed channel, a panic
\* inside the deferred closure that nothing recovers
NewThreadSendOnClosed(k) ==
  /\ Running /\ k \in DOMAIN tasks /\ tasks[k].pc = "recover"
  /\ closed.err
  /\ crashed' = TRUE
  /\ UNCHANGED <<config, fileCounter, wg, closed, mainPc, walk, tasks, workers,
                 fileColl, errColl, outSink, errSink, monitor, opens, summary>>

\* ------------------------------------------------ SameThreadSearchFile
\* lines 193-252 for the file the worker took from fileChan: open and scan,
\* up to the first send or the end of the closure.  A panic is recovered
\* inside the closure, whose deferred send precedes the next iteration.
SameThreadSearch(w) ==
  /\ Running /\ w \in DOMAIN workers /\ workers[w].pc = "scan"
  /\ opens' = [opens EXCEPT ![workers[w].file] = @ + 1]
  /\ \E res \in {SameThreadScan(entries[workers[w].file], keywords, regexs)} :
     LET next == CASE res.outcome \in {"openErr", "scanErr"} -> "sendErr"
                   [] res.outcome = "panic" -> "recover"
                   [] res.outcome = "hit" -> "sendFile"
                   [] res.outcome = "nohit" -> "recv"
     IN /\ workers' = [workers EXCEPT ![w] = [@ EXCEPT !.pc = next, !.res = res]]
        /\ fileCounter' = [fileCounter EXCEPT !.SearchedFiles =
                             IF res.searched THEN @ + 1 ELSE @]
  /\ UNCHANGED <<config, wg, closed, mainPc, walk, tasks, fileColl, errColl,
                 outSink, errSink, monitor, crashed, summary>>

\* SameThreadSendErr without the return after the send: the closure falls
\* through to  if hit { outputChan <- file }.
SameThreadSendErrNoReturn(w) ==
  /\ Running /\ w \in DOMAIN workers
  /\ workers[w].pc \in {"sendErr", "recover"}
  /\ errColl.pc = "recv" /\ ~closed.err
  /\ errColl' = [pc |-> "count", held |-> workers[w].res.errMsg]
  /\ workers' = [workers EXCEPT ![w].pc =
                   IF workers[w].res.hit THEN "sendFile" ELSE "recv"]
  /\ UNCHANGED <<config, fileCounter, wg, closed, mainPc, walk, tasks,
                 fileColl, outSink, errSink, monitor, opens, crashed, summary>>

\* lines 188, 198-203, 243-249: errChan <- msg, then the next iteration
SameThreadSendErr(w) ==
  /\ Running /\ w \in DOMAIN workers
  /\ workers[w].pc \in {"sendErr", "recover"}
  /\ errColl.pc = "recv" /\ ~closed.err
  /\ errColl' = [pc |-> "count", held |-> workers[w].res.errMsg]
  /\ workers' = [workers EXCEPT ![w].pc = "recv"]
  /\ UNCHANGED <<config, fileCounter, wg, closed, mainPc, walk, tasks,
                 fileColl, outSink, errSink, monitor, opens, crashed, summary>>

\* lines 252-254: outputChan <- file, then the next iteration
SameThreadSendFile(w) ==
  /\ Running /\ w \in DOMAIN workers /\ workers[w].pc = "sendFile"
  /\ fileColl.pc = "recv" /\ ~closed.output
  /\ fileColl' = [pc |-> "write", held |-> workers[w].res.file]
  /\ workers' = [workers EXCEPT ![w].pc = "recv"]
  /\ UNCHANGED <<config, fileCounter, wg, closed, mainPc, walk, tasks, errColl,
                 outSink, errSink, monitor, opens, crashed, summary>>

\* lines 181-182: fileChan is closed, the range ends, deferred wg.Done()
SameThreadExit(w) ==
  /\ Running /\ w \in DOMAIN workers /\ workers[w].pc = "recv"
  /\ closed.file
  /\ workers' = [workers EXCEPT ![w].pc = "exited"]
  /\ wg' = wg - 1
  /\ UNCHANGED <<config, fileCounter, closed, mainPc, walk, tasks, fileColl,
                 errColl, outSink, errSink, monitor, opens, crashed, summary>>

\* -------------------------------------------------------------- collectors
\* FileCollector, lines 41-44: format the record and append it to the file
FileCollectorWrite ==
  /\ Running /\ fileColl.pc = "write"
  /\ outSink' = Append(outSink, FileString(fileColl.held))
  /\ fileColl' = [pc |-> "recv", held |-> NoMsg]
  /\ UNCHANGED <<config, fileCounter, wg, closed, mainPc, walk, tasks, workers,
                 errColl, errSink, monitor, opens, crashed, summary>>

\* FileCollector, lines 40, 46-47: outputChan is closed, the range ends
FileCollectorDone ==
  /\ Running /\ fileColl.pc = "recv" /\ closed.output
  /\ fileColl' = [fileColl EXCEPT !.pc = "done"]
  /\ UNCHANGED <<config, fileCounter, wg, closed, mainPc, walk, tasks, workers,
                 errColl, outSink, errSink, monitor, opens, crashed, summary>>

\* ErrorCollector, line 58, for the record it received:
\* atomic.AddUint64(numErrors, 1)
ErrorCollectorCount ==
  /\ Running /\ errColl.pc = "count"
  /\ fileCounter' = [fileCounter EXCEPT !.NumErrors = @ + 1]
  /\ errColl' = [errColl EXCEPT !.pc = "write"]
  /\ UNCHANGED <<config, wg, closed, mainPc, walk, tasks, workers, fileColl,
                 outSink, errSink, monitor, opens, crashed, summary>>

\* ErrorCollector, lines 59-61: log the record, then append its line to the
\* error file
ErrorCollectorWrite ==
  /\ Running /\ errColl.pc = "write"
  /\ errSink' = Append(errSink, errColl.held \o <<"\n">>)
  /\ errColl' = [pc |-> "recv", held |-> NoMsg]
  /\ UNCHANGED <<config, fileCounter, wg, closed, mainPc, walk, tasks, workers,
                 fileColl, outSink, monitor, opens, crashed, summary>>

\* ErrorCollector, lines 57, 63-64: errChan is closed, the range ends
ErrorCollectorDone ==
  /\ Running /\ errColl.pc = "recv" /\ closed.err
  /\ errColl' = [errColl EXCEPT !.pc = "done"]
  /\ UNCHANGED <<config, fileCounter, wg, closed, mainPc, walk, tasks, workers,
                 fileColl, outSink, errSink, monitor, opens, crashed, summary>>

\* ----------------------------------------------------------------- monitor
\* doneFunc, lines 485-495.  At the range (before it has received anything)
\* a closed doneChan ends it.  Once it has received false it is in the inner
\* for { Printf; Sleep }, which has no exit: it prints a status line.  The
\* line is output only; printedAfterDone records that one was printed after
\* main closed doneChan.
DoneFunc ==
  /\ Running /\ monitor.pc \in {"range", "render"}
  /\ IF monitor.pc = "range"
     THEN closed.done /\ monitor' = [monitor EXCEPT !.pc = "exited"]
     ELSE monitor' = [monitor EXCEPT !.printedAfterDone = @ \/ closed.done]
  /\ UNCHANGED <<config, fileCounter, wg, closed, mainPc, walk, tasks, workers,
                 fileColl, errColl, outSink, errSink, opens, crashed, summary>>

\* ------------------------------------------------------------------- specs
Next ==
  \/ MainStart
  \/ MainSendDone
  \/ MainWait
  \/ MainClose
  \/ MainSummary
  \/ MainReturn
  \/ WalkVisit
  \/ WalkSendErr
  \/ \E w \in 1..MaxWorkers : WalkDispatch(w)
  \/ WalkFinish
  \/ \E k \in 1..MaxEntries : NewThreadSendErr(k)
  \/ \E k \in 1..MaxEntries : NewThreadSendFile(k)
  \/ \E k \in 1..MaxEntries : NewThreadRecoverSend(k)
  \/ \E k \in 1..MaxEntries : NewThreadSendOnClosed(k)
  \/ \E w \in 1..MaxWorkers : SameThreadSendErr(w)
  \/ \E w \in 1..MaxWorkers : SameThreadSendFile(w)
  \/ \E w \in 1..MaxWorkers : SameThreadExit(w)
  \/ FileCollectorWrite
  \/ FileCollectorDone
  \/ ErrorCollectorCount
  \/ ErrorCollectorWrite
  \/ ErrorCollectorDone
  \/ DoneFunc
  \/ \E k \in 1..MaxEntries : NewThreadSearch(k)
  \/ \E w \in 1..MaxWorkers : SameThreadSearch(w)

Spec == Init /\ [][Next]_vars

SpecAnyCount == InitAnyCount /\ [][Next]_vars

\* ------------------------------------------------------------ observations
\* a non-directory entry whose path matches no ignore string
Qualifying(i) ==
  /\ i \in DOMAIN entries
  /\ entries[i].kind = "file"
  /\ ~Ignored(entries[i].path, ignored_strings)

\* a file the ignore filter skips
IgnoredFile(i) ==
  /\ i \in DOMAIN entries
  /\ entries[i].kind = "file"
  /\ Ignored(entries[i].path, ignored_strings)

\* walkFunc has been called on entry i and has got past its tests
Discovered(i) == walk.idx > i \/ (walk.idx = i /\ walk.pc = "dispatch")

\* ErrorRecords for the path that ErrorCollector has received
ErrRecordsOf(path) ==
  Cardinality({n \in DOMAIN errSink :
                 HasPrefix(errSink[n], path \o <<" ", "=", " ">>)})
  + (IF /\ errColl.pc \in {"count", "write"}
        /\ HasPrefix(errColl.held, path \o <<" ", "=", " ">>)
     THEN 1 ELSE 0)

\* FileResults for the path that FileCollector has received
ResultsOf(path) ==
  Cardinality({n \in DOMAIN outSink :
                 HasPrefix(outSink[n], <<"P","a","t","h",":"," ">> \o path
                                       \o <<" ", "|", " ">>)})
  + (IF fileColl.pc = "write" /\ fileColl.held.FilePath = path
     THEN 1 ELSE 0)

\* a scan of entry i is under way: a goroutine has it and has not finished
\* with it
InFlight(i) ==
  \/ \E k \in DOMAIN tasks : tasks[k].file = i /\ tasks[k].pc # "done"
  \/ \E w \in DOMAIN workers :
       /\ workers[w].file = i
       /\ workers[w].pc \in {"scan", "sendErr", "sendFile", "recover"}

\* entry i was opened for scanning and its scan has run to its end
Finished(i) == opens[i] >= 1 /\ ~InFlight(i)

\* the descriptors the scan loop of the current mode gives for entry i
LoopOf(i) == ScanLoop(ScannedLines(entries[i]), 1, keywords, regexs, newThread)

\* the scan of entry i gets through its lines and scanner.Err() is not nil
EndsInReadError(i) ==
  /\ ~entries[i].openErr
  /\ ScannerErr(entries[i]) # "nil"
  /\ ~ScanPanics(ScannedLines(entries[i]), regexs)

\* the scan of entry i panics (a nil regex is dereferenced on its first line)
Faults(i) ==
  ~entries[i].openErr /\ ScanPanics(ScannedLines(entries[i]), regexs)

BarrierPassed == mainPc \in {"close", "summary", "return", "exited"}

RunEnded == mainPc = "exited" \/ crashed

\* ------------------------------------------------------------------ claims
\* C1: in both modes every qualifying file the walker discovers is scanned,
\* and exactly once: no entry is opened twice, only qualifying files are
\* opened, no file is held by two goroutines, the run cannot stop short of
\* its end, and when it has ended no qualifying file is left unscanned.
C1_EveryFileScannedOnce ==
  /\ \A i \in DOMAIN entries :
       /\ opens[i] <= 1
       /\ (opens[i] = 1 => Qualifying(i))
       /\ Cardinality({k \in DOMAIN tasks : tasks[k].file = i}) <= 1
       /\ Cardinality({w \in DOMAIN workers :
                         workers[w].file = i /\ InFlight(i)}) <= 1
  /\ RunEnded => \A i \in DOMAIN entries : Qualifying(i) => opens[i] = 1
  /\ RunEnded \/ ENABLED <<Next>>_vars

\* a pooled run over two qualifying files has ended, both scanned
C1_Witness ==
  /\ mainPc = "exited" /\ ~newThread
  /\ Cardinality({i \in DOMAIN entries : Qualifying(i) /\ opens[i] = 1}) = 2

\* C2: once wg.Wait() has returned, every scan goroutine has done all it
\* does for its files, every send included.
C2_BarrierMeansAllSent ==
  BarrierPassed =>
    /\ \A k \in DOMAIN tasks : tasks[k].pc = "done"
    /\ \A w \in DOMAIN workers : workers[w].pc = "exited"

\* C3: a panic while scanning a file becomes exactly one ErrorRecord that
\* ErrorCollector receives, and never takes the process down.
C3_FaultBecomesOneRecord ==
  /\ ~crashed
  /\ mainPc = "exited" =>
       \A i \in DOMAIN entries :
         (Qualifying(i) /\ Faults(i)) => ErrRecordsOf(entries[i].path) = 1

\* C4: a non-ignored file has at most one FileResult, at most one
\* ErrorRecord, and never one of each.
C4_AtMostOneRecord ==
  \A i \in DOMAIN entries :
    Qualifying(i) =>
      ResultsOf(entries[i].path) + ErrRecordsOf(entries[i].path) <= 1

\* one file's FileResult and another file's ErrorRecord are both written
C4_Witness ==
  \E i, j \in DOMAIN entries :
    /\ Qualifying(i) /\ Qualifying(j)
    /\ Finished(i) /\ Finished(j)
    /\ ResultsOf(entries[i].path) = 1 /\ fileColl.pc # "write"
    /\ ErrRecordsOf(entries[j].path) = 1 /\ errColl.pc = "recv"

\* C5: when main prints the summary and returns, both collectors have
\* drained and ended: every record received is written and NumErrors counts
\* every ErrorRecord.
C5_CollectorsDrainedAtSummary ==
  mainPc = "exited" =>
    /\ fileColl.pc = "done"
    /\ errColl.pc = "done"
    /\ fileCounter.NumErrors = Len(errSink)

\* C6: an ignored file is skipped entirely: NumIgnored counts it, FoundFiles
\* does not, it is never opened and no record is emitted for it.
C6_IgnoredEntrySkipped ==
  /\ fileCounter.NumIgnored =
       Cardinality({i \in DOMAIN entries : IgnoredFile(i) /\ Discovered(i)})
  /\ fileCounter.FoundFiles =
       Cardinality({i \in DOMAIN entries : Qualifying(i) /\ Discovered(i)})
  /\ \A i \in DOMAIN entries :
       IgnoredFile(i) =>
         /\ opens[i] = 0
         /\ ~InFlight(i)
         /\ ResultsOf(entries[i].path) = 0
         /\ ErrRecordsOf(entries[i].path) = 0

\* C7: once main has closed doneChan the monitor leaves its rendering loop:
\* by the end of the run doneFunc has returned.
C7_MonitorTerminates ==
  (closed.done /\ mainPc = "exited") => monitor.pc = "exited"

\* C8: the two modes emit the same FileResult for the same file: every line
\* written to the output file is the line either scanner produces for some
\* entry, keyword matches as <term>:<line>.
C8_ModesRenderAlike ==
  \A n \in DOMAIN outSink :
    \E i \in DOMAIN entries :
      /\ outSink[n] = FileString(NewThreadScan(entries[i], keywords, regexs).file)
      /\ outSink[n] = FileString(SameThreadScan(entries[i], keywords, regexs).file)

\* C9: a file whose scan ends in a read error (a line that fills the 1 MiB
\* buffer, or another scanner error) yields no FileResult and exactly one
\* ErrorRecord, whatever matches its earlier lines gave.
C9_ReadErrorDiscardsMatches ==
  \A i \in DOMAIN entries :
    (Qualifying(i) /\ EndsInReadError(i)) =>
      /\ ResultsOf(entries[i].path) = 0
      /\ ErrRecordsOf(entries[i].path) <= 1
      /\ Finished(i) => ErrRecordsOf(entries[i].path) = 1

\* a file with a match on an earlier line ended in a read error
C9_Witness ==
  \E i \in DOMAIN entries :
    /\ Qualifying(i) /\ EndsInReadError(i) /\ Finished(i)
    /\ LoopOf(i) # <<>>
    /\ ErrRecordsOf(entries[i].path) = 1

\* the files that could not be opened, so far
OpenErrScanned ==
  Cardinality({i \in DOMAIN entries :
                 Qualifying(i) /\ entries[i].openErr /\ opens[i] >= 1})

\* C10: a file that cannot be opened yields exactly one ErrorRecord and no
\* FileResult, and is counted in FoundFiles but not in SearchedFiles; a pool
\* worker that met the open error goes back to fileChan for the next file.
C10_OpenErrorOneRecord ==
  /\ [](/\ \A i \in DOMAIN entries :
             (Qualifying(i) /\ entries[i].openErr) =>
               /\ ResultsOf(entries[i].path) = 0
               /\ ErrRecordsOf(entries[i].path) <= 1
               /\ Finished(i) => ErrRecordsOf(entries[i].path) = 1
        /\ fileCounter.FoundFiles >= fileCounter.SearchedFiles + OpenErrScanned)
  /\ [][\A w \in DOMAIN workers :
          (/\ workers[w].pc = "sendErr"
           /\ entries[workers[w].file].openErr
           /\ w \in DOMAIN workers'
           /\ workers'[w].pc # "sendErr") => workers'[w].pc = "recv"]_vars

\* the single worker of a pool took another file after one it could not open
C10_Witness ==
  /\ ~newThread /\ threadCount = 1
  /\ \E i \in DOMAIN entries :
       /\ Qualifying(i) /\ entries[i].openErr /\ Finished(i)
       /\ ErrRecordsOf(entries[i].path) = 1
       /\ workers[1].file > i
       /\ fileCounter.FoundFiles = 2

\* the read loop of entry i ran to its end: the file was opened and no line
\* made the loop panic
ReadLoopCompleted(i) ==
  /\ Qualifying(i) /\ opens[i] >= 1
  /\ ~entries[i].openErr
  /\ ~ScanPanics(ScannedLines(entries[i]), regexs)

\* C11: SearchedFiles counts exactly the files whose read loop ran to its
\* end, once each; a file that then ends in a scan error is counted and also
\* yields its ErrorRecord.
C11_SearchedCountsCompletedLoops ==
  /\ fileCounter.SearchedFiles =
       Cardinality({i \in DOMAIN entries : ReadLoopCompleted(i)})
  /\ \A i \in DOMAIN entries :
       (ReadLoopCompleted(i) /\ ScannerErr(entries[i]) # "nil" /\ Finished(i))
         => ErrRecordsOf(entries[i].path) = 1

\* of two files found, the one that ended in a scan error is the one counted
\* as searched; the other could not be opened
C11_Witness ==
  /\ fileCounter.FoundFiles = 2 /\ fileCounter.SearchedFiles = 1
  /\ \E i, j \in DOMAIN entries :
       /\ ReadLoopCompleted(i) /\ ScannerErr(entries[i]) # "nil"
       /\ Finished(i) /\ ErrRecordsOf(entries[i].path) = 1
       /\ Qualifying(j) /\ entries[j].openErr /\ Finished(j)

\* C12: in every state FoundFiles is the number of non-ignored non-directory
\* entries walkFunc has discovered so far, and when the run has ended it is
\* the number of all such entries, whatever became of each file.
C12_FoundCountsDiscovered ==
  /\ fileCounter.FoundFiles =
       Cardinality({i \in DOMAIN entries : Qualifying(i) /\ Discovered(i)})
  /\ RunEnded =>
       fileCounter.FoundFiles =
         Cardinality({i \in DOMAIN entries : Qualifying(i)})

\* a run has ended that met an ignored file and a file that cannot be opened
C12_Witness ==
  /\ mainPc = "exited" /\ fileCounter.FoundFiles = 1
  /\ \E i, j \in DOMAIN entries :
       /\ IgnoredFile(i)
       /\ Qualifying(j) /\ entries[j].openErr /\ Finished(j)

\* C13: the list of patterns the scanners iterate over holds compiled
\* regexes only: no nil entry stands for a line that failed to compile.
C13_OnlyCompiledPatterns ==
  \A j \in DOMAIN regexs : ~regexs[j].nil

\* WalkDir calls walkFunc on entry i with an error
WalkErr(i) == i \in DOMAIN entries /\ entries[i].kind = "walkerr"

\* C14: a traversal error on one entry does not stop the walk: the entry
\* gets one ErrorRecord, sent when walkFunc is called on it, and the walk goes
\* on to the end, so that when the run has ended every qualifying file has
\* been found and scanned.
C14_TraversalErrorContinues ==
  \A i \in DOMAIN entries :
    WalkErr(i) =>
      /\ ErrRecordsOf(entries[i].path) = (IF walk.idx > i THEN 1 ELSE 0)
      /\ RunEnded =>
           /\ walk.pc = "done"
           /\ fileCounter.FoundFiles =
                Cardinality({j \in DOMAIN entries : Qualifying(j)})
           /\ \A j \in DOMAIN entries : Qualifying(j) => opens[j] = 1

\* a file that the walk reaches after the failing entry has been scanned
C14_Witness ==
  \E i, j \in DOMAIN entries :
    /\ WalkErr(i) /\ ErrRecordsOf(entries[i].path) = 1
    /\ j > i /\ Qualifying(j) /\ Finished(j)
    /\ mainPc = "exited"

\* the qualifying files walkFunc has got past whose scan is not over
HandedUnfinished ==
  {i \in DOMAIN entries : Qualifying(i) /\ walk.idx > i /\ ~Finished(i)}

\* entry i is with a worker, or has been
Handed(i) ==
  \/ opens[i] >= 1
  \/ \E w \in DOMAIN workers : workers[w].file = i /\ workers[w].pc = "scan"

\* C15: in pooled mode the send on fileChan completes only when a worker
\* takes the file: at most threadCount files are handed over and not yet
\* finished, and every file the walker has got past is with a worker.
C15_QueueBackpressure ==
  ~newThread =>
    /\ Cardinality(HandedUnfinished) <= threadCount
    /\ \A i \in DOMAIN entries : (Qualifying(i) /\ walk.idx > i) => Handed(i)

\* the walker waits at its send while every worker is busy with a file
C15_Witness ==
  /\ ~newThread /\ walk.pc = "dispatch"
  /\ workers # <<>>
  /\ \A w \in DOMAIN workers : workers[w].pc # "recv"
  /\ Cardinality(HandedUnfinished) = threadCount

\* C16: in pooled mode fileChan is closed by the walker, when the walk is
\* over and every qualifying file has been handed to a worker; the barrier
\* counts the workers that have not exited, each signals it once, and once
\* the queue is closed the run is never stuck before the barrier opens.
C16_QueueClosedWorkersExit ==
  ~newThread =>
    /\ closed.file <=> walk.pc = "done"
    /\ closed.file => \A i \in DOMAIN entries : Qualifying(i) => Handed(i)
    /\ mainPc # "start" =>
         wg = Cardinality({w \in DOMAIN workers : workers[w].pc # "exited"})
    /\ BarrierPassed => \A w \in DOMAIN workers : workers[w].pc = "exited"
    /\ (closed.file /\ mainPc = "wait") => ENABLED <<Next>>_vars

\* a pool of two workers has exited and main is past the barrier
C16_Witness ==
  /\ ~newThread /\ threadCount = 2 /\ closed.file
  /\ BarrierPassed /\ wg = 0
  /\ \A w \in DOMAIN workers : workers[w].pc = "exited"
  /\ fileCounter.FoundFiles = 2

\* C17: an ignore string that matches a directory's path prunes the
\* directory: nothing below it is scanned and no ErrorRecord is emitted for
\* anything below it.
C17_IgnoredDirectoryPruned ==
  \A d, i \in DOMAIN entries :
    (/\ entries[d].kind = "dir"
     /\ Ignored(entries[d].path, ignored_strings)
     /\ Below(entries[i].path, entries[d].path)) =>
      /\ opens[i] = 0
      /\ ErrRecordsOf(entries[i].path) = 0

\* The file.Keywords of the scans whose read loop ran to its end, each with
\* the entry scanned.
ScanResults ==
  {[file |-> tasks[k].file, kws |-> tasks[k].res.file.Keywords] :
     k \in {x \in DOMAIN tasks :
              tasks[x].res.outcome \in {"hit", "nohit", "scanErr"}}}
  \cup
  {[file |-> workers[w].file, kws |-> workers[w].res.file.Keywords] :
     w \in {x \in DOMAIN workers :
              workers[x].res.outcome \in {"hit", "nohit", "scanErr"}}}

\* What matches in entry i: <<n, 1, j>> when line n contains keyword j,
\* <<n, 2, j>> when pattern j has a match in line n.
Items(i) ==
  LET texts == ScannedLines(entries[i])
  IN {it \in (DOMAIN texts) \X {1} \X (DOMAIN keywords) :
        Contains(texts[it[1]], keywords[it[3]])}
     \cup
     {it \in (DOMAIN texts) \X {2} \X (DOMAIN regexs) :
        FindString(regexs[it[3]], texts[it[1]]) # <<>>}

\* the descriptor of an item of entry i
Render(i, it) ==
  IF it[2] = 1
  THEN KwLine(keywords[it[3]], it[1], newThread)
  ELSE ReLine(FindString(regexs[it[3]], ScannedLines(entries[i])[it[1]]),
              regexs[it[3]], it[1])

\* C18: for every line of a scanned file, file.Keywords holds exactly one
\* descriptor for each keyword the line contains and for each pattern that
\* has a match in it (with the first match), and nothing else.
C18_OneDescriptorPerMatch ==
  \A r \in ScanResults :
    LET items == Items(r.file)
    IN /\ Len(r.kws) = Cardinality(items)
       /\ \A it \in items :
            Cardinality({p \in DOMAIN r.kws :
                           r.kws[p] = Render(r.file, it)}) = 1

\* a line holds a keyword twice and the scan gave one descriptor for it
C18_Witness ==
  \E r \in ScanResults :
    \E it \in Items(r.file) :
      /\ it[2] = 1
      /\ Occurrences(ScannedLines(entries[r.file])[it[1]], keywords[it[3]]) >= 2
      /\ Cardinality({p \in DOMAIN r.kws : r.kws[p] = Render(r.file, it)}) = 1

\* item a is recorded before item b: an earlier line, or the same line and a
\* keyword before a pattern, or the same list and an earlier place in it
Before(a, b) ==
  \/ a[1] < b[1]
  \/ a[1] = b[1] /\ a[2] < b[2]
  \/ a[1] = b[1] /\ a[2] = b[2] /\ a[3] < b[3]

\* C19: file.Keywords is ordered by line number from 1 up, within a line
\* keywords before patterns, each in the order of its list, whatever the
\* interleaving of the scans.
C19_DescriptorsInOrder ==
  \A r \in ScanResults :
    LET items == Items(r.file)
    IN /\ Len(r.kws) = Cardinality(items)
       /\ \A it \in items :
            r.kws[1 + Cardinality({b \in items : Before(b, it)})]
              = Render(r.file, it)

\* a scan recorded a pattern match of one line and then a keyword match of
\* a later line, and two keywords and two patterns of one line
C19_Witness ==
  \E r \in ScanResults :
    /\ \E a, b \in Items(r.file) : a[1] < b[1] /\ a[2] = 2 /\ b[2] = 1
    /\ \E a, b \in Items(r.file) : a[1] = b[1] /\ a[2] = b[2] /\ a[3] < b[3]

\* the files whose scan panicked, so far
FaultScanned ==
  Cardinality({i \in DOMAIN entries :
                 Qualifying(i) /\ Faults(i) /\ opens[i] >= 1})

\* C20: SearchedFiles never exceeds FoundFiles, and once main is past the
\* barrier every found file is accounted for: searched, or failed to open,
\* or panicked before its read loop was over.
C20_CounterConservation ==
  /\ fileCounter.SearchedFiles <= fileCounter.FoundFiles
  /\ BarrierPassed =>
       fileCounter.FoundFiles =
         fileCounter.SearchedFiles + OpenErrScanned + FaultScanned

\* past the barrier, with one file that panicked and one that did not open
C20_Witness ==
  /\ BarrierPassed
  /\ fileCounter.FoundFiles = 2
  /\ OpenErrScanned = 1 /\ FaultScanned = 1

\* C21: whatever integer threadcount= is given, pooled mode starts at least
\* one worker, and the run is never stuck with the walker waiting to hand a
\* file to a worker.
C21_WorkerCountGuard ==
  ~newThread =>
    /\ mainPc # "start" => workers # <<>>
    /\ walk.pc = "dispatch" => ENABLED <<Next>>_vars

====
